---- MODULE Spec2Model ----
(***************************************************************************)
(* LegalLens document pipeline: upload intake and the detached background  *)
(* task (routes/documents.js), the file list and content store             *)
(* (utils/fileStorage.js), the retrieval index (utils/rag.js), and the     *)
(* summarizer with its cache and rate limiter.                             *)
(***************************************************************************)
EXTENDS Integers, Sequences, FiniteSets, TLC

\* ---------------------------------------------------------------- universe
Users == {"u1", "u2"}
Docs == {"d1", "d2"}
IPs == {"ip1"}
Callers == Users \cup IPs

\* Uploaded bytes, by what the extractor makes of them.
Bodies == {"A", "B", "tiny", "notext", "corrupt"}
NoText == "none"
Texts == {"tA", "tB", "tiny"}
GenTexts == {"g1", "g2"}

MaxRestarts == 1
MaxTicks == 3

\* Program constants (routes/documents.js).
CACHE_TTL == 60 * 60 * 1000
windowMs == 60 * 60 * 1000
maxRequests == 10
TickMs == windowMs \div 2

Keys == Users \X Docs
CacheKeys == Docs \X Callers

\* ------------------------------------------------------------------- state
VARIABLES
  loaded,            \* userFiles[userId] is defined in memory
  userFiles,         \* in-memory file list per user
  filesJson,         \* files.json per user on disk
  origFile,          \* the stored original file of a document id
  documentContents,  \* in-memory content cache, keyed (user, document)
  contentDisk,       \* content-<id>.txt per (user, document)
  chunksDisk,        \* chunks.json per index directory
  storeCache,        \* index directories with a cached MemoryVectorStore
  summaryCache,      \* (document, caller) -> [summary, timestamp]
  requestCounts,     \* caller -> [count, timestamp]
  now,               \* Date.now()
  hasKey,            \* process.env.GEMINI_API_KEY is set
  up,                \* processUploadedFile call per document id
  bg,                \* background task per document id
  del,               \* removeUserFile call per document id
  returned,          \* status of the record processUploadedFile returned
  sumLog,            \* the last finished generateSummary call
  deleted,           \* keys for which removeUserFile has returned true
  saved,             \* per key, the text of the last saveDocumentContent that returned true
  restarts,
  calls,             \* generateSummary calls made directly (POST /summaries)
  hist,              \* per cache key: the latest results, for the cache properties
  ex,                \* the last generateExtractiveSummary call: input and output
  recent,            \* per caller: the calls checkRateLimit admitted k ticks ago
  loads,             \* loadIndex calls in flight
  embeds,            \* per key: the vector stores built in this process run
  ans,               \* the last generateExtractiveAnswer call: input and output
  saves              \* saveDocumentContent calls made directly, in flight

vars == <<loaded, userFiles, filesJson, origFile, documentContents, contentDisk,
          chunksDisk, storeCache, summaryCache, requestCounts, now, hasKey,
          up, bg, del, returned, sumLog, deleted, saved, restarts, calls, hist, ex,
          recent, loads, embeds, ans, saves>>

storeVars == <<documentContents, contentDisk>>
indexVars == <<chunksDisk, storeCache, embeds>>
sumVars == <<summaryCache, requestCounts, recent>>

\* ------------------------------------------------------------ pure helpers
\* extractTextFromFile on a stored file: a text, "" or a throw.
ExtractThrows(b) == b \in {"corrupt", "absent"}

extractTextFromFile(b) ==
  CASE b = "A" -> "tA"
    [] b = "B" -> "tB"
    [] b = "tiny" -> "tiny"
    [] OTHER -> ""

\* Length in characters of a text.
Len_(t) ==
  CASE t = "tA" -> 200
    [] t = "tB" -> 9000
    [] t = "tiny" -> 12
    [] OTHER -> 0

\* generateExtractiveSummary: never throws, never empty.
generateExtractiveSummary(t) ==
  CASE t = "tA" -> "xA"
    [] t = "tB" -> "xB"
    [] t = "tiny" -> "."
    [] OTHER -> "Document processed successfully. Summary not available."

\* The record processUploadedFile builds (fileInfo).
FileInfo(d) ==
  [id |-> d, status |-> "uploading", summary |-> NoText, hasContent |-> FALSE,
   error |-> "none"]

UpdatedFile_Uploading(fi) == fi

\* updatedFile = { ...fileInfo, status: 'processing' }
UpdatedFile(fi) == [fi EXCEPT !.status = "processing"]

\* findIndex(f => f.id === id): 0 when absent (JS -1).
FindIndex(list, d) ==
  IF \E i \in 1..Len(list) : list[i].id = d
  THEN CHOOSE i \in 1..Len(list) :
         list[i].id = d /\ \A j \in 1..(i - 1) : list[j].id # d
  ELSE 0

\* ensureUserFiles: load files.json into memory when the list is undefined.
EnsuredLoaded(u) == [loaded EXCEPT ![u] = TRUE]
EnsuredFiles(u) ==
  IF loaded[u] THEN userFiles
  ELSE [userFiles EXCEPT ![u] = IF filesJson[u].exists THEN filesJson[u].list ELSE <<>>]

\* list[i] = rec when i is a valid index.
SetAt(list, i, rec) == IF i = 0 THEN list ELSE [list EXCEPT ![i] = rec]

\* Chunks buildIndex persists for a text: the splitter's documents minus those
\* of 20 characters or fewer (chunkSize 1000, overlap 150).
NChunks(t) ==
  CASE t = "tA" -> 1
    [] t = "tB" -> 11
    [] OTHER -> 0

\* list.splice(i, 1): removes whatever is at position i, nothing when i is
\* past the end.
SpliceAt(list, i) ==
  IF i >= 1 /\ i <= Len(list)
  THEN [j \in 1..(Len(list) - 1) |-> IF j < i THEN list[j] ELSE list[j + 1]]
  ELSE list

DelIds == {"r1", "r2"}
IdleDel == [pc |-> "idle", user |-> "u1", doc |-> "d1", index |-> 0]

\* The response of a route handler: status, body, and for an answer the
\* context it was made from and the number of chunks retrieved.
Resp(kind, body) == [kind |-> kind, body |-> body, ctx |-> NoText, rag |-> 0]

\* ----------------------------------------------------------- content store
\* The disk branch of getDocumentContent (part_010 299-310) calls fs.readFile of
\* the callback API ("fs", line 1) without a callback inside a try: the call
\* throws, the catch logs it, and the branch yields no content.
DiskRead(k) == NoText

\* getDocumentContent: memory first, then disk, else null (no record carries a
\* contentUrl).
getDocumentContent(k) ==
  IF documentContents[k] # NoText THEN documentContents[k]
  ELSE IF contentDisk[k] # NoText /\ DiskRead(k) # NoText THEN DiskRead(k)
  ELSE NoText

\* The memory cache after getDocumentContent (a disk hit populates it).
ContentsAfterGet(k) ==
  IF documentContents[k] = NoText /\ contentDisk[k] # NoText /\ DiskRead(k) # NoText
  THEN [documentContents EXCEPT ![k] = DiskRead(k)]
  ELSE documentContents

\* ---------------------------------------------------------- retrieval index
Min(a, b) == IF a < b THEN a ELSE b
Max(a, b) == IF a > b THEN a ELSE b

getIndexDir_NoUser(u, d) == <<"u1", d>>

\* getIndexDir (rag.js 7-10): uploads/user-<userId>/lc-index-<documentId>, as
\* the pair of its two variable segments (ids hold no path separator).
getIndexDir(u, d) == <<u, d>>

\* loadIndex returns a store (rag.js 67-117): the chunk set exists and either
\* a store is cached or the key is set, the set is not empty and the
\* embedding of the chunks succeeds.
LoadIndexStore(k, embedOk) ==
  /\ chunksDisk[getIndexDir(k[1], k[2])].exists
  /\ \/ getIndexDir(k[1], k[2]) \in storeCache
     \/ hasKey /\ chunksDisk[getIndexDir(k[1], k[2])].n > 0 /\ embedOk

\* storeCache after loadIndex.
StoreCacheAfter(k, embedOk) ==
  IF LoadIndexStore(k, embedOk) THEN storeCache \cup {getIndexDir(k[1], k[2])}
  ELSE storeCache

\* loadIndex gets past the cache and the key check and embeds the chunks.
LoadIndexEmbeds(k) ==
  /\ chunksDisk[getIndexDir(k[1], k[2])].exists
  /\ getIndexDir(k[1], k[2]) \notin storeCache
  /\ hasKey

\* History kept for the index cache: the stores MemoryVectorStore.fromDocuments
\* has built for k.
EmbedsAfter(k, embedOk) ==
  IF LoadIndexEmbeds(k) /\ LoadIndexStore(k, embedOk)
  THEN [embeds EXCEPT ![k] = @ + 1] ELSE embeds

SaveIds == {"s1", "s2"}
IdleSave == [pc |-> "idle", key |-> <<"u1", "d1">>, text |-> NoText]

LoadIds == {"l1", "l2"}
IdleLoad == [pc |-> "idle", key |-> <<"u1", "d1">>]

Blank(q) == q \in {"", " "}

\* The chunks of the store loadIndex returns for k, in the order of the
\* persisted list: each is named by the (user, document) whose buildIndex
\* wrote it and its position.
StoreChunks(k) ==
  LET dir == getIndexDir(k[1], k[2]) IN
  [i \in 1..chunksDisk[dir].n |-> <<chunksDisk[dir].of[1], chunksDisk[dir].of[2], i>>]

\* retrieveTopK (rag.js 119-149): the chunks whose texts it joins; <<>> is the
\* empty string. searchOk: the embedding of the question succeeds.
retrieveTopK(k, q, kk, embedOk, searchOk) ==
  IF ~LoadIndexStore(k, embedOk) THEN <<>>
  ELSE IF Blank(q) THEN <<>>
  ELSE IF ~searchOk THEN <<>>
  ELSE SubSeq(StoreChunks(k), 1, Min(Max(1, kk), Len(StoreChunks(k))))

\* content.length > 8000 ? content.substring(0, 8000) + '...' : content
Truncated(t) ==
  IF Len_(t) > 8000
  THEN CASE t = "tB" -> "tB[0,8000)..." [] OTHER -> "cut"
  ELSE t

FinalContext_Raw(retrieved, content) == IF retrieved # <<>> THEN "rag" ELSE content

\* POST /:id/ask, context selection (documents.js 1099-1115).
FinalContext(retrieved, content) ==
  IF retrieved # <<>> THEN "rag" ELSE Truncated(content)

\* -------------------------------------------------------------- summarizer
Pruned_Early(rc, t) ==
  [c \in Callers |->
     IF rc[c].count > 0 /\ rc[c].timestamp <= t - windowMs
     THEN [count |-> 0, timestamp |-> 0]
     ELSE rc[c]]

\* checkRateLimit: the lazy pruning of every caller's expired entry.
Pruned(rc, t) ==
  [c \in Callers |->
     IF rc[c].count > 0 /\ rc[c].timestamp < t - windowMs
     THEN [count |-> 0, timestamp |-> 0]
     ELSE rc[c]]

\* checkRateLimit(ip) at time t: the value returned ...
checkRateLimit(rc, ip, t) == Pruned(rc, t)[ip].count < maxRequests

\* ... and the counters it leaves.
RateCountsAfter(rc, ip, t) ==
  IF checkRateLimit(rc, ip, t)
  THEN [Pruned(rc, t) EXCEPT ![ip] = [count |-> Pruned(rc, t)[ip].count + 1,
                                      timestamp |-> t]]
  ELSE Pruned(rc, t)

\* History kept for the rate-limit properties: per caller, how many calls
\* checkRateLimit has admitted in this process run at the current time and at
\* each earlier time within one window of it.
WindowTicks == windowMs \div TickMs
NoRecent == [c \in Callers |-> [k \in 0..WindowTicks |-> 0]]

RecentAfter(rc, ip, t) ==
  IF checkRateLimit(rc, ip, t) THEN [recent EXCEPT ![ip][0] = @ + 1] ELSE recent

\* The history n ticks later.
RecentShifted(n) ==
  [c \in Callers |-> [k \in 0..WindowTicks |-> IF k < n THEN 0 ELSE recent[c][k - n]]]

\* cacheKey = `${documentId}-${ip}`
CacheKey(d, ip) == <<d, ip>>

\* cachedSummary && (Date.now() - cachedSummary.timestamp) < CACHE_TTL
CacheFresh(cache, d, ip, t) ==
  /\ cache[CacheKey(d, ip)].summary # NoText
  /\ (t - cache[CacheKey(d, ip)].timestamp) < CACHE_TTL

\* Outcomes of model.generateContent: a text, a failure, or no answer at all.
GenFailures == {"quota", "transient", "invalid", "empty"}
GenOutcomes == GenTexts \cup GenFailures \cup {"hang"}

GSPath_NoLimit(cache, rc, d, ip, t) ==
  IF CacheFresh(cache, d, ip, t) THEN "cached"
  ELSE IF ~hasKey THEN "nokey"
  ELSE "call"

\* generateSummary up to its await: which way the call goes.
GSPath(cache, rc, d, ip, t) ==
  IF CacheFresh(cache, d, ip, t) THEN "cached"
  ELSE IF ~checkRateLimit(rc, ip, t) THEN "limited"
  ELSE IF ~hasKey THEN "nokey"
  ELSE "call"

GSCounts_Always(cache, rc, d, ip, t) == RateCountsAfter(rc, ip, t)

\* The counters after that first half (no check on a cache hit).
GSCounts(cache, rc, d, ip, t) ==
  IF CacheFresh(cache, d, ip, t) THEN rc ELSE RateCountsAfter(rc, ip, t)

GSRecent(cache, rc, d, ip, t) ==
  IF CacheFresh(cache, d, ip, t) THEN recent ELSE RecentAfter(rc, ip, t)

\* The value returned when the call does not reach the capability.
GSEarly(cache, rc, text, d, ip, t) ==
  IF GSPath(cache, rc, d, ip, t) = "cached"
  THEN cache[CacheKey(d, ip)].summary
  ELSE generateExtractiveSummary(text)

GSResult_Empty(text, o) == IF o \in GenTexts THEN o ELSE ""

\* The value returned once the capability has answered with outcome o.
GSResult(text, o) == IF o \in GenTexts THEN o ELSE generateExtractiveSummary(text)

GSCache_NoWrite(cache, d, ip, o, t) == cache

\* The cache after the capability has answered: written on success only.
GSCache(cache, d, ip, o, t) ==
  IF o \in GenTexts
  THEN [cache EXCEPT ![CacheKey(d, ip)] = [summary |-> o, timestamp |-> t]]
  ELSE cache

NoLog ==
  [doc |-> "none", caller |-> "none", text |-> NoText, path |-> "none",
   result |-> NoText, invoked |-> FALSE, time |-> 0, prevGen |-> NoText,
   prevRes |-> NoText, limited |-> FALSE]

\* The record of a finished generateSummary call: its arguments, the way it
\* went, what it returned, whether it reached the capability, when it started,
\* and three facts about the state it started in (pg, pr, lim).
Log(d, ip, text, path, result, invoked, t, pg, pr, lim) ==
  [doc |-> d, caller |-> ip, text |-> text, path |-> path, result |-> result,
   invoked |-> invoked, time |-> t, prevGen |-> pg, prevRes |-> pr,
   limited |-> lim]

CallIds == {"c1", "c2"}
IdleCall ==
  [pc |-> "idle", doc |-> "d1", ip |-> "ip1", text |-> NoText, time |-> 0,
   prevGen |-> NoText, prevRes |-> NoText, limited |-> FALSE]

\* History kept for the cache properties: per cache key, the most recent generative
\* result and the time it was returned.
NoHist == [genText |-> NoText, genTime |-> 0]

PrevGen(k, t) ==
  IF hist[k].genText # NoText /\ (t - hist[k].genTime) < CACHE_TTL
  THEN hist[k].genText ELSE NoText

\* What the last finished call returned, when it was a call for the same key
\* that started less than the TTL before t.
PrevRes(d, ip, t) ==
  IF sumLog.doc = d /\ sumLog.caller = ip /\ (t - sumLog.time) < CACHE_TTL
  THEN sumLog.result ELSE NoText

HistAfter(k, result, generative, t) ==
  IF generative THEN [hist EXCEPT ![k] = [genText |-> result, genTime |-> t]]
  ELSE hist

\* The caller's quota is exhausted and no fresh cache entry exists.
Limited(d, ip, t) ==
  /\ ~checkRateLimit(requestCounts, ip, t)
  /\ ~(summaryCache[<<d, ip>>].summary # NoText
       /\ (t - summaryCache[<<d, ip>>].timestamp) < CACHE_TTL)

\* ------------------------------------- generateExtractiveSummary in detail
\* The sentence list after the split and the length filter is sentences 1..n in
\* document order; a sentence is 20 words long, or 90 when it is in long, and
\* the sentence hit names one priority keyword. Sentences are pairwise distinct.
MaxSentences == 12
MaxLong == 3
bucketCount == 6
targetWords == 180

SentenceWords(long, i) == IF i \in long THEN 90 ELSE 20

\* score = keywordHits * 2 + min(words / 18, 1) + positionBoost, in tenths.
Score(n, long, hit, i) ==
  (IF i = hit THEN 20 ELSE 0)
  + Min((SentenceWords(long, i) * 10) \div 18, 10)
  + (IF i = 1 \/ i = n THEN 2 ELSE 0)

\* bucketSize = Math.ceil(sentences.length / bucketCount)
BucketSize(n) == (n + bucketCount - 1) \div bucketCount

\* scored.slice(start, end) of bucket b (0-based), as sentence numbers.
Bucket(n, b) ==
  {i \in 1..n : i > b * BucketSize(n) /\ i <= b * BucketSize(n) + BucketSize(n)}

\* The buckets the loop reaches before start >= sentences.length.
BucketsUsed(n) == {b \in 0..(bucketCount - 1) : b * BucketSize(n) < n}

\* Position r of a list sorted by descending score; the sort is stable.
Ranked(n, long, hit, among, r) ==
  CHOOSE i \in among :
    Cardinality({j \in among : \/ Score(n, long, hit, j) > Score(n, long, hit, i)
                               \/ /\ Score(n, long, hit, j) = Score(n, long, hit, i)
                                  /\ j < i}) = r - 1

BucketTop_First(n, long, hit, b) == b * BucketSize(n) + 1

\* slice.sort((a, b) => b.score - a.score)[0]
BucketTop(n, long, hit, b) == Ranked(n, long, hit, Bucket(n, b), 1)

\* selected after the bucket loop.
BucketPicks(n, long, hit) ==
  [p \in 1..Cardinality(BucketsUsed(n)) |-> BucketTop(n, long, hit, p - 1)]

InSeq(x, sq) == \E p \in 1..Len(sq) : sq[p] = x

\* The globalTop loop from rank r on: push what is not yet selected, stop once
\* selected.length >= bucketCount + 2.
RECURSIVE GlobalFill(_, _, _, _, _)
GlobalFill(n, long, hit, sel, r) ==
  IF r > n THEN sel
  ELSE LET s == Ranked(n, long, hit, 1..n, r) IN
       IF InSeq(s, sel) THEN GlobalFill(n, long, hit, sel, r + 1)
       ELSE IF Len(sel) + 1 >= bucketCount + 2 THEN Append(sel, s)
       ELSE GlobalFill(n, long, hit, Append(sel, s), r + 1)

Selected(n, long, hit) == GlobalFill(n, long, hit, BucketPicks(n, long, hit), 1)

\* Words of the first p selected sentences together.
RECURSIVE WordsBefore(_, _, _)
WordsBefore(long, sel, p) ==
  IF p <= 1 THEN 0 ELSE WordsBefore(long, sel, p - 1) + SentenceWords(long, sel[p - 1])

\* Words the composition loop takes from the p-th selected sentence.
WordsTaken(long, sel, p) ==
  Min(SentenceWords(long, sel[p]), Max(0, targetWords - WordsBefore(long, sel, p)))

\* The paragraph, as the selected sentences it holds words of and how many.
Paragraph(long, sel) ==
  LET kept == CHOOSE m \in 0..Len(sel) :
                /\ \A p \in 1..m : WordsTaken(long, sel, p) > 0
                /\ m < Len(sel) => WordsTaken(long, sel, m + 1) = 0
  IN [p \in 1..kept |-> [s |-> sel[p], words |-> WordsTaken(long, sel, p)]]

NoExtract == [n |-> 0, long |-> {}, hit |-> 0, selected |-> <<>>, out |-> <<>>]

\* ------------------------------ generateExtractiveAnswer, the amount branch
\* A sentence of the context is one of a few shapes, given by the places
\* <<start, end>> of its currency matches of the form $1,200.
MaxAnswerSentences == 3
SentenceShapes == {"none", "one", "two", "late", "early"}

AmountMatches(sh) ==
  CASE sh = "one" -> << <<5, 9>> >>
    [] sh = "two" -> << <<5, 9>>, <<20, 25>> >>
    [] sh = "late" -> << <<20, 25>> >>
    [] sh = "early" -> << <<0, 4>> >>
    [] OTHER -> <<>>

\* The first match a search of the sentence finds from position lastIndex on,
\* 0 when there is none.
FirstMatchFrom(sh, lastIndex) ==
  LET found == {j \in 1..Len(AmountMatches(sh)) : AmountMatches(sh)[j][1] >= lastIndex}
  IN IF found = {} THEN 0 ELSE CHOOSE j \in found : \A h \in found : j <= h

\* The loop over the sentences from sentence i on. amountRegex is global:
\* test(s) searches from its lastIndex and leaves it at the end of the match,
\* or at 0 without one; s.matchAll(amountRegex) searches a copy of the regex
\* from that same lastIndex (lines 331-340). NoAmount: the loop ends without a
\* return.
NoAmount == [s |-> 0, m |-> 0]
RECURSIVE AmountScan(_, _, _)
AmountScan(sents, i, lastIndex) ==
  IF i > Len(sents) THEN NoAmount
  ELSE LET tested == FirstMatchFrom(sents[i], lastIndex) IN
       IF tested = 0 THEN AmountScan(sents, i + 1, 0)
       ELSE LET after == AmountMatches(sents[i])[tested][2]
                first == FirstMatchFrom(sents[i], after)
            IN IF first # 0 THEN [s |-> i, m |-> first]
               ELSE AmountScan(sents, i + 1, after)

NoAnswer == [sentences |-> <<>>, out |-> NoAmount]

\* -------------------------------------------------------------------- Init
Init ==
  /\ loaded = [u \in Users |-> FALSE]
  /\ userFiles = [u \in Users |-> <<>>]
  /\ filesJson = [u \in Users |-> [exists |-> FALSE, list |-> <<>>]]
  /\ origFile = [d \in Docs |-> "absent"]
  /\ documentContents = [k \in Keys |-> NoText]
  /\ contentDisk = [k \in Keys |-> NoText]
  /\ chunksDisk = [k \in Keys |-> [exists |-> FALSE, n |-> 0, of |-> k]]
  /\ storeCache = {}
  /\ summaryCache = [k \in CacheKeys |-> [summary |-> NoText, timestamp |-> 0]]
  /\ requestCounts = [c \in Callers |-> [count |-> 0, timestamp |-> 0]]
  /\ now = 0
  /\ hasKey \in BOOLEAN
  /\ up = [d \in Docs |-> [pc |-> "idle", user |-> "u1", body |-> "absent"]]
  /\ bg = [d \in Docs |-> [pc |-> "none", text |-> NoText, index |-> "none",
                           call |-> IdleCall]]
  /\ del = [r \in DelIds |-> IdleDel]
  /\ returned = [d \in Docs |-> "none"]
  /\ sumLog = NoLog
  /\ deleted = {}
  /\ saved = [k \in Keys |-> NoText]
  /\ restarts = 0
  /\ calls = [c \in CallIds |-> IdleCall]
  /\ hist = [k \in CacheKeys |-> NoHist]
  /\ ex = NoExtract
  /\ recent = NoRecent
  /\ loads = [l \in LoadIds |-> IdleLoad]
  /\ embeds = [k \in Keys |-> 0]
  /\ ans = NoAnswer
  /\ saves = [c \in SaveIds |-> IdleSave]

\* ------------------------------------------------------------ upload intake
sumSide == <<now, hasKey, calls, ex, loads, ans, saves>>
Owner(d) == up[d].user

\* processUploadedFile: validation, then the write of the original file is
\* started (lines 399-436). Document ids are fresh (generateId).
UploadBegin(u, d, b) ==
  /\ up[d].pc = "idle"
  /\ d = "d1" \/ up["d1"].pc # "idle"
  /\ up' = [up EXCEPT ![d] = IF b = "zero"
                              THEN [pc |-> "rejected", user |-> u, body |-> "absent"]
                              ELSE [pc |-> "writing", user |-> u, body |-> b]]
  /\ UNCHANGED <<loaded, userFiles, filesJson, origFile, storeVars, indexVars, sumVars,
                 bg, del, returned, sumLog, deleted, saved, restarts, hist, sumSide>>

IntakeList_Always(u, d, ok) ==
  Append(IF loaded[u] THEN userFiles[u] ELSE <<>>, FileInfo(d))

\* The list of u after the intake: addUserFile pushes fileInfo only when the
\* write of the original file succeeded (documents.js 431-438); otherwise the
\* catch finds no record to mark (lines 561-566).
IntakeList(u, d, ok) ==
  IF ok THEN Append(IF loaded[u] THEN userFiles[u] ELSE <<>>, FileInfo(d))
  ELSE EnsuredFiles(u)[u]

\* The original file is written and addUserFile runs to its first await: it
\* resets an undefined list to [] and pushes fileInfo (part_010 lines 59-134).
\* A failed write goes to the catch of processUploadedFile (lines 542-569).
UploadWrite(d, ok) ==
  LET u == Owner(d) IN
  /\ up[d].pc = "writing"
  /\ loaded' = EnsuredLoaded(u)
  /\ userFiles' = [userFiles EXCEPT ![u] = IntakeList(u, d, ok)]
  /\ IF ok
     THEN /\ origFile' = [origFile EXCEPT ![d] = up[d].body]
          /\ up' = [up EXCEPT ![d].pc = "persisting"]
     ELSE /\ up' = [up EXCEPT ![d].pc = "rejected"]
          /\ UNCHANGED origFile
  /\ UNCHANGED <<filesJson, storeVars, indexVars, sumVars, bg, del, returned, sumLog,
                 deleted, saved, restarts, hist, sumSide>>

\* files.json is written (a failure is swallowed), addUserFile returns, and
\* processUploadedFile sets the record to processing, schedules the background
\* task with setTimeout and returns updatedFile (lines 441-541).
UploadFinish(d, ok) ==
  LET u == Owner(d)
      list == EnsuredFiles(u)[u]
  IN /\ up[d].pc = "persisting"
     /\ filesJson' = IF ok THEN [filesJson EXCEPT ![u] = [exists |-> TRUE, list |-> list]]
                     ELSE filesJson
     /\ loaded' = EnsuredLoaded(u)
     /\ userFiles' = [userFiles EXCEPT
                        ![u] = SetAt(list, FindIndex(list, d), UpdatedFile(FileInfo(d)))]
     /\ bg' = [bg EXCEPT ![d].pc = "scheduled"]
     /\ returned' = [returned EXCEPT ![d] = UpdatedFile(FileInfo(d)).status]
     /\ up' = [up EXCEPT ![d].pc = "done"]
     /\ UNCHANGED <<origFile, storeVars, indexVars, sumVars, del, sumLog, deleted, saved, restarts,
                    hist, sumSide>>

\* ---------------------------------------------------------- background task
\* The record written when the task ends (completedFile / errorFile).
CompletedFile(d, summary) ==
  [UpdatedFile(FileInfo(d)) EXCEPT !.status = "completed", !.summary = summary,
                                   !.hasContent = TRUE]

ErrorFile(d, msg) == [UpdatedFile(FileInfo(d)) EXCEPT !.status = "error", !.error = msg]

\* userFiles[fileIndex] = rec, when the record is still listed.
WriteRecord(u, d, rec) ==
  /\ loaded' = EnsuredLoaded(u)
  /\ userFiles' = [userFiles EXCEPT
                     ![u] = SetAt(EnsuredFiles(u)[u], FindIndex(EnsuredFiles(u)[u], d), rec)]

\* The message of the error thrown by the extraction step (helpers.js 169-183,
\* documents.js 464-466).
ExtractError(b) ==
  IF ExtractThrows(b) THEN "Failed to process the document"
  ELSE "Failed to extract text from document. Content type: string"

\* The timer fires: extractTextFromFile, then saveDocumentContent up to its
\* first await (memory cache set); a failure goes to the catch (lines 456-472,
\* 519-538).
BgExtract(d) ==
  LET u == Owner(d)
      b == origFile[d]
      text == extractTextFromFile(b)
  IN /\ bg[d].pc = "scheduled"
     /\ IF ExtractThrows(b) \/ text = ""
        THEN /\ WriteRecord(u, d, ErrorFile(d, ExtractError(b)))
             /\ bg' = [bg EXCEPT ![d].pc = "finished"]
             /\ UNCHANGED documentContents
        ELSE /\ documentContents' = [documentContents EXCEPT ![<<u, d>>] = text]
             /\ bg' = [bg EXCEPT ![d].pc = "saving", ![d].text = text]
             /\ UNCHANGED <<loaded, userFiles>>
     /\ UNCHANGED <<filesJson, origFile, contentDisk, indexVars, sumVars, up, del,
                    returned, sumLog, deleted, saved, restarts, hist, sumSide>>

\* saveDocumentContent after its disk write: the record of a listed document
\* gets hasContent; the status is spread unchanged (part_010 lines 260-271).
SavedList(u, d) ==
  IF loaded[u] /\ FindIndex(userFiles[u], d) # 0
  THEN [userFiles[u] EXCEPT ![FindIndex(userFiles[u], d)].hasContent = TRUE]
  ELSE userFiles[u]

\* The content file is written (a failure is swallowed, lines 251-258),
\* saveDocumentContent returns true and buildIndex starts.
BgSaved(d, ok) ==
  LET u == Owner(d) IN
  /\ bg[d].pc = "saving"
  /\ contentDisk' = IF ok THEN [contentDisk EXCEPT ![<<u, d>>] = bg[d].text]
                    ELSE contentDisk
  /\ userFiles' = [userFiles EXCEPT ![u] = SavedList(u, d)]
  /\ saved' = [saved EXCEPT ![<<u, d>>] = bg[d].text]
  /\ bg' = [bg EXCEPT ![d].pc = "indexing"]
  /\ UNCHANGED <<loaded, filesJson, origFile, documentContents, indexVars, sumVars, up,
                 del, returned, sumLog, deleted, restarts, hist, sumSide>>

\* buildIndex: chunks.json as written when the build succeeds (rag.js 41-55).
BuiltIndex(k, text) ==
  [chunksDisk EXCEPT ![getIndexDir(k[1], k[2])] =
                       [exists |-> TRUE, n |-> NChunks(text), of |-> k]]

IndexCatch_Rethrown(ok) == IF ok THEN "none" ELSE "rethrown"

\* try { await buildIndex(...) } catch (idxErr) { console.warn(...) }: the
\* failure ends in the inner catch (lines 474-479).
IndexCatch(ok) == IF ok THEN "none" ELSE "swallowed"

\* buildIndex ends (its failure is swallowed, lines 474-479) and generateSummary
\* runs to its first await; when it returns without reaching the capability the
\* task completes in the same turn (lines 481-518).
BgIndexed(d, ok) ==
  LET u == Owner(d)
      text == bg[d].text
      path == GSPath(summaryCache, requestCounts, d, u, now)
      early == GSEarly(summaryCache, requestCounts, text, d, u, now)
      index == IF ok THEN "built" ELSE "failed"
  IN /\ bg[d].pc = "indexing"
     /\ chunksDisk' = IF ok THEN BuiltIndex(<<u, d>>, text) ELSE chunksDisk
     /\ IF IndexCatch(ok) = "rethrown"
        THEN /\ WriteRecord(u, d, ErrorFile(d, "Failed to build retrieval index"))
             /\ bg' = [bg EXCEPT ![d].pc = "finished", ![d].index = index]
             /\ UNCHANGED <<requestCounts, recent, sumLog>>
        ELSE /\ requestCounts' = GSCounts(summaryCache, requestCounts, d, u, now)
             /\ recent' = GSRecent(summaryCache, requestCounts, d, u, now)
             /\ IF path = "call"
                THEN /\ bg' = [bg EXCEPT ![d].pc = "awaitgen", ![d].index = index,
                                         ![d].call = [pc |-> "await", doc |-> d, ip |-> u,
                                                      text |-> text, time |-> now,
                                                      prevGen |-> PrevGen(<<d, u>>, now),
                                                      prevRes |-> PrevRes(d, u, now),
                                                      limited |-> Limited(d, u, now)]]
                     /\ UNCHANGED <<loaded, userFiles, sumLog>>
                ELSE /\ sumLog' = Log(d, u, text, path, early, FALSE, now,
                                      PrevGen(<<d, u>>, now), PrevRes(d, u, now),
                                      Limited(d, u, now))
                     /\ WriteRecord(u, d, CompletedFile(d, early))
                     /\ bg' = [bg EXCEPT ![d].pc = "finished", ![d].index = index]
     /\ UNCHANGED <<filesJson, origFile, storeVars, storeCache, embeds, summaryCache, up, del,
                    returned, deleted, saved, restarts, hist, sumSide>>

\* The capability answers, fails or never answers; on an answer or a failure
\* generateSummary returns and the task writes completedFile (lines 194-226,
\* 493-516). No timeout bounds the call.
BgSummarized(d, o) ==
  LET u == Owner(d)
      c == bg[d].call
      result == GSResult(c.text, o)
  IN /\ bg[d].pc = "awaitgen"
     /\ IF o = "hang"
        THEN /\ bg' = [bg EXCEPT ![d].pc = "hung"]
             /\ UNCHANGED <<loaded, userFiles, summaryCache, sumLog, hist>>
        ELSE /\ summaryCache' = GSCache(summaryCache, d, u, o, now)
             /\ hist' = HistAfter(<<d, u>>, result, o \in GenTexts, now)
             /\ sumLog' = Log(d, u, c.text, IF o \in GenTexts THEN "gen" ELSE "fallback",
                              result, TRUE, c.time, c.prevGen, c.prevRes, c.limited)
             /\ WriteRecord(u, d, CompletedFile(d, result))
             /\ bg' = [bg EXCEPT ![d].pc = "finished", ![d].call = IdleCall]
     /\ UNCHANGED <<filesJson, origFile, storeVars, indexVars, requestCounts, recent, up, del,
                    returned, deleted, saved, restarts, sumSide>>

\* -------------------------------------------------------------------- delete
\* DELETE /:id: 404 when getUserFile finds nothing; otherwise removeUserFile
\* takes the record's index and starts to unlink the original file
\* (documents.js 742-754, part_010 184-195).
DeleteBegin(r, u, d) ==
  LET list == EnsuredFiles(u)[u] IN
  /\ del[r].pc = "idle"
  /\ loaded' = EnsuredLoaded(u)
  /\ userFiles' = EnsuredFiles(u)
  /\ del' = IF FindIndex(list, d) = 0 THEN del
            ELSE [del EXCEPT ![r] = [pc |-> "unlink", user |-> u, doc |-> d,
                                     index |-> FindIndex(list, d)]]
  /\ UNCHANGED <<filesJson, origFile, storeVars, indexVars, sumVars, up, bg, returned,
                 sumLog, deleted, saved, restarts, hist, sumSide>>

\* The original file is unlinked; removeDocumentContent deletes the memory
\* entry and starts to unlink the content file (part_010 193-198, 348-358).
\* A failed unlink makes removeUserFile throw.
DeleteUnlink(r, ok) ==
  LET u == del[r].user
      d == del[r].doc
  IN /\ del[r].pc = "unlink"
     /\ ok \/ origFile[d] # "absent"
     /\ IF ok
        THEN /\ origFile' = [origFile EXCEPT ![d] = "absent"]
             /\ documentContents' = [documentContents EXCEPT ![<<u, d>>] = NoText]
             /\ saved' = [saved EXCEPT ![<<u, d>>] = NoText]
             /\ del' = [del EXCEPT ![r].pc = "content"]
        ELSE /\ del' = [del EXCEPT ![r] = IdleDel]
             /\ UNCHANGED <<origFile, documentContents, saved>>
     /\ UNCHANGED <<loaded, userFiles, filesJson, contentDisk, indexVars, sumVars, up, bg,
                    returned, sumLog, deleted, restarts, hist, sumSide>>

\* The content file is unlinked, the entry at the index taken at the start is
\* spliced out, files.json is rewritten (a failure is swallowed) and
\* removeUserFile returns true (part_010 200-209).
DeleteContent(r, ok, okPersist) ==
  LET u == del[r].user
      d == del[r].doc
      list == SpliceAt(userFiles[u], del[r].index)
  IN /\ del[r].pc = "content"
     /\ ok \/ contentDisk[<<u, d>>] # NoText
     /\ IF ok
        THEN /\ contentDisk' = [contentDisk EXCEPT ![<<u, d>>] = NoText]
             /\ userFiles' = [userFiles EXCEPT ![u] = list]
             /\ filesJson' = IF okPersist
                             THEN [filesJson EXCEPT ![u] = [exists |-> TRUE, list |-> list]]
                             ELSE filesJson
             /\ deleted' = deleted \cup {<<u, d>>}
        ELSE UNCHANGED <<contentDisk, userFiles, filesJson, deleted>>
     /\ del' = [del EXCEPT ![r] = IdleDel]
     /\ UNCHANGED <<loaded, origFile, documentContents, indexVars, sumVars, up, bg,
                    returned, sumLog, saved, restarts, hist, sumSide>>

\* ------------------------------------------------------------ query routes
\* Content lookup shared by the content, summary and ask routes:
\* getDocumentContent, then lazy re-extraction from the original file and
\* saveDocumentContent (documents.js 848-861, 939-952, 1073-1086).
Stored(u, d) == getDocumentContent(<<u, d>>)
NeedExtract(u, d) == Stored(u, d) = NoText /\ origFile[d] # "absent"
LazyThrows(u, d) == NeedExtract(u, d) /\ ExtractThrows(origFile[d])
LazyText(u, d) ==
  IF Stored(u, d) # NoText THEN Stored(u, d)
  ELSE IF NeedExtract(u, d) /\ ~LazyThrows(u, d) THEN extractTextFromFile(origFile[d])
  ELSE ""
LazySaves(u, d) == NeedExtract(u, d) /\ ~LazyThrows(u, d) /\ LazyText(u, d) # ""

HasContentSet(list, d) ==
  IF FindIndex(list, d) # 0
  THEN [list EXCEPT ![FindIndex(list, d)].hasContent = TRUE]
  ELSE list

\* The stores after the lookup of a listed document.
LookupEffects(u, d, okDisk) ==
  /\ documentContents' = IF LazySaves(u, d)
                         THEN [documentContents EXCEPT ![<<u, d>>] = LazyText(u, d)]
                         ELSE ContentsAfterGet(<<u, d>>)
  /\ contentDisk' = IF LazySaves(u, d) /\ okDisk
                    THEN [contentDisk EXCEPT ![<<u, d>>] = LazyText(u, d)]
                    ELSE contentDisk
  /\ saved' = IF LazySaves(u, d) THEN [saved EXCEPT ![<<u, d>>] = LazyText(u, d)]
              ELSE saved

ListAfterLookup(u, d) ==
  IF LazySaves(u, d) THEN HasContentSet(EnsuredFiles(u)[u], d) ELSE EnsuredFiles(u)[u]

\* getUserFile(u, d) finds a record.
Listed(u, d) == FindIndex(EnsuredFiles(u)[u], d) # 0

\* GET /:id/content (documents.js 837-889): the response ...
ContentResponse(u, d) ==
  IF ~Listed(u, d) THEN Resp("404", "FILE_NOT_FOUND")
  ELSE IF LazyThrows(u, d) THEN Resp("500", "FAILED_TO_RETRIEVE_CONTENT")
  ELSE IF LazyText(u, d) = "" THEN Resp("404", "CONTENT_NOT_FOUND")
  ELSE Resp("200", LazyText(u, d))

\* ... and the handler's effects.
GetContent(u, d, okDisk) ==
  /\ okDisk \/ (Listed(u, d) /\ LazySaves(u, d))
  /\ loaded' = EnsuredLoaded(u)
  /\ IF ~Listed(u, d)
     THEN /\ userFiles' = EnsuredFiles(u)
          /\ UNCHANGED <<storeVars, saved>>
     ELSE /\ LookupEffects(u, d, okDisk)
          /\ userFiles' = [EnsuredFiles(u) EXCEPT ![u] = ListAfterLookup(u, d)]
  /\ UNCHANGED <<filesJson, origFile, indexVars, sumVars, up, bg, del, returned, sumLog,
                 deleted, restarts, hist, sumSide>>

Questions == {"", " ", "hi", "q"}
AnsOutcomes == {"a1", "quota", "transient", "hang"}

\* The small-talk intents answered without a document (documents.js 1053-1060).
SmallTalk(q) == q = "hi"

\* askQuestion (documents.js 230-292): the generative answer, or the
\* extractive fallback, prefixed on a quota failure.
askQuestion(o) ==
  IF ~hasKey THEN "extractive"
  ELSE IF o = "a1" THEN "a1"
  ELSE IF o = "quota" THEN "high demand: extractive"
  ELSE "extractive"

\* The ask handler gets as far as retrieval and answering.
AskAnswers(u, d, q) ==
  /\ ~Blank(q) /\ ~SmallTalk(q)
  /\ Listed(u, d) /\ ~LazyThrows(u, d) /\ LazyText(u, d) # ""

\* POST /:id/ask (documents.js 1039-1176): the response ...
AskResponse(u, d, q, embedOk, searchOk, o) ==
  IF Blank(q) THEN Resp("400", "INVALID_QUESTION")
  ELSE IF SmallTalk(q) THEN Resp("200", "greeting")
  ELSE IF ~Listed(u, d) THEN Resp("404", "DOCUMENT_NOT_FOUND")
  ELSE IF LazyThrows(u, d) THEN Resp("500", "DOCUMENT_PROCESSING_ERROR")
  ELSE IF LazyText(u, d) = "" THEN Resp("400", "CONTENT_NOT_AVAILABLE")
  ELSE IF hasKey /\ o = "hang" THEN Resp("pending", NoText)
  ELSE [kind |-> "200", body |-> askQuestion(o),
        ctx |-> FinalContext(retrieveTopK(<<u, d>>, q, 4, embedOk, searchOk),
                             LazyText(u, d)),
        rag |-> Len(retrieveTopK(<<u, d>>, q, 4, embedOk, searchOk))]

\* ... and the handler's effects.
Ask(u, d, q, okDisk, embedOk) ==
  /\ ~Blank(q) /\ ~SmallTalk(q)
  /\ okDisk \/ (Listed(u, d) /\ LazySaves(u, d))
  /\ embedOk \/ AskAnswers(u, d, q)
  /\ loaded' = EnsuredLoaded(u)
  /\ IF ~Listed(u, d)
     THEN /\ userFiles' = EnsuredFiles(u)
          /\ UNCHANGED <<storeVars, saved, storeCache, embeds>>
     ELSE /\ LookupEffects(u, d, okDisk)
          /\ userFiles' = [EnsuredFiles(u) EXCEPT ![u] = ListAfterLookup(u, d)]
          /\ storeCache' = IF AskAnswers(u, d, q)
                           THEN StoreCacheAfter(<<u, d>>, embedOk) ELSE storeCache
          /\ embeds' = IF AskAnswers(u, d, q)
                       THEN EmbedsAfter(<<u, d>>, embedOk) ELSE embeds
  /\ UNCHANGED <<filesJson, origFile, chunksDisk, sumVars, up, bg, del, returned,
                 sumLog, deleted, restarts, hist, sumSide>>

\* GET /:id/summary (documents.js 892-1036), run as one step. o is the outcome
\* of the capability should generateSummary reach it.
GetSummary(u, d, ip, okDisk, embedOk, okIdx, o) ==
  LET k == <<u, d>>
      list == EnsuredFiles(u)[u]
      rec == list[FindIndex(list, d)]
      text == LazyText(u, d)
      runs == /\ Listed(u, d) /\ rec.status \notin {"processing", "error"}
              /\ rec.summary = NoText /\ ~LazyThrows(u, d) /\ text # ""
      path == GSPath(summaryCache, requestCounts, d, ip, now)
      summary == IF path = "call" THEN GSResult(text, o)
                 ELSE GSEarly(summaryCache, requestCounts, text, d, ip, now)
      hangs == runs /\ path = "call" /\ o = "hang"
      after == ListAfterLookup(u, d)
  IN /\ okDisk \/ (runs /\ LazySaves(u, d))
     /\ (embedOk /\ okIdx) \/ runs
     /\ o = "g1" \/ (runs /\ path = "call")
     /\ loaded' = EnsuredLoaded(u)
     /\ IF ~runs
        THEN /\ userFiles' = EnsuredFiles(u)
             /\ UNCHANGED <<storeVars, saved, indexVars, sumVars, sumLog, hist>>
        ELSE /\ LookupEffects(u, d, okDisk)
             /\ storeCache' = StoreCacheAfter(k, embedOk)
             /\ embeds' = EmbedsAfter(k, embedOk)
             /\ chunksDisk' = IF ~LoadIndexStore(k, embedOk) /\ okIdx
                              THEN BuiltIndex(k, text) ELSE chunksDisk
             /\ requestCounts' = GSCounts(summaryCache, requestCounts, d, ip, now)
             /\ recent' = GSRecent(summaryCache, requestCounts, d, ip, now)
             /\ IF hangs
                THEN /\ userFiles' = [EnsuredFiles(u) EXCEPT ![u] = after]
                     /\ UNCHANGED <<summaryCache, sumLog, hist>>
                ELSE /\ summaryCache' = IF path = "call"
                                        THEN GSCache(summaryCache, d, ip, o, now)
                                        ELSE summaryCache
                     /\ hist' = IF path = "call"
                                THEN HistAfter(<<d, ip>>, summary, o \in GenTexts, now)
                                ELSE hist
                     /\ sumLog' = Log(d, ip, text,
                                      IF path # "call" THEN path
                                      ELSE IF o \in GenTexts THEN "gen" ELSE "fallback",
                                      summary, path = "call", now, PrevGen(<<d, ip>>, now),
                                      PrevRes(d, ip, now), Limited(d, ip, now))
                     /\ userFiles' = [EnsuredFiles(u) EXCEPT
                                        ![u] = [after EXCEPT ![FindIndex(after, d)].summary
                                                               = summary]]
     /\ UNCHANGED <<filesJson, origFile, up, bg, del, returned, deleted, restarts, sumSide>>

\* GET /:id/summary, the response (documents.js 897-1035). A failed lazy
\* extraction goes to the inner catch, whose fallback finds no content and
\* rethrows to the 500 of the outer catch.
SummaryResponse(u, d, ip, o) ==
  LET list == EnsuredFiles(u)[u]
      rec == list[FindIndex(list, d)]
      text == LazyText(u, d)
      path == GSPath(summaryCache, requestCounts, d, ip, now)
  IN IF ~Listed(u, d) THEN Resp("404", "FILE_NOT_FOUND")
     ELSE IF rec.status = "processing" THEN Resp("400", "DOCUMENT_PROCESSING")
     ELSE IF rec.status = "error" THEN Resp("400", "DOCUMENT_PROCESSING_FAILED")
     ELSE IF rec.summary # NoText THEN Resp("200", rec.summary)
     ELSE IF LazyThrows(u, d) THEN Resp("500", "SUMMARIZATION_FAILED")
     ELSE IF text = "" THEN Resp("400", "CONTENT_NOT_AVAILABLE")
     ELSE IF path = "call" /\ o = "hang" THEN Resp("pending", NoText)
     ELSE IF path = "call" THEN Resp("200", GSResult(text, o))
     ELSE Resp("200", GSEarly(summaryCache, requestCounts, text, d, ip, now))

\* getUserFile(u, d).status for the owner of d, "none" when nothing is found.
Status(d) ==
  LET list == EnsuredFiles(Owner(d))[Owner(d)] IN
  IF FindIndex(list, d) = 0 THEN "none" ELSE list[FindIndex(list, d)].status

\* getUserFile(u, d).summary for the owner of d.
Summary(d) ==
  LET list == EnsuredFiles(Owner(d))[Owner(d)] IN
  IF FindIndex(list, d) = 0 THEN NoText ELSE list[FindIndex(list, d)].summary

\* ------------------------------------------------------------------- restart
Quiet ==
  /\ \A d \in Docs : up[d].pc \in {"idle", "done", "rejected"}
  /\ \A d \in Docs : bg[d].pc \in {"none", "finished", "hung"}
  /\ \A r \in DelIds : del[r].pc = "idle"
  /\ \A c \in CallIds : calls[c].pc = "idle"

\* The process stops with no handler and no task under way and starts again:
\* every in-memory structure is empty, the files on disk stay.
Restart ==
  /\ restarts < MaxRestarts
  /\ Quiet
  /\ \E d \in Docs : up[d].pc # "idle"
  /\ restarts' = restarts + 1
  /\ loaded' = [u \in Users |-> FALSE]
  /\ userFiles' = [u \in Users |-> <<>>]
  /\ documentContents' = [k \in Keys |-> NoText]
  /\ storeCache' = {}
  /\ embeds' = [k \in Keys |-> 0]
  /\ summaryCache' = [k \in CacheKeys |-> [summary |-> NoText, timestamp |-> 0]]
  /\ requestCounts' = [c \in Callers |-> [count |-> 0, timestamp |-> 0]]
  /\ recent' = NoRecent
  /\ hist' = [k \in CacheKeys |-> NoHist]
  /\ bg' = [d \in Docs |-> IF bg[d].pc = "hung" THEN [bg[d] EXCEPT !.pc = "lost"]
                            ELSE bg[d]]
  /\ UNCHANGED <<filesJson, origFile, contentDisk, chunksDisk, up, del, returned, sumLog,
                 deleted, saved, sumSide>>

\* The uploads of the lifecycle specification: a short and a long text, a
\* file the extractor fails on, and an empty buffer.
UploadBodies == {"A", "B", "corrupt", "zero"}
Uploader(d) == IF d = "d1" THEN {"u1"} ELSE Users

\* The lifecycle of one document: its upload, its background task, its
\* deletion, its owner's queries, and a restart. The capability answers with a
\* text, fails, or never answers.
LifeDocs == {"d1"}
LifeUsers == {"u1"}
LifeOutcomes == {"g1"} \cup GenFailures \cup {"hang"}

Next ==
  \/ \E d \in LifeDocs, b \in UploadBodies : \E u \in Uploader(d) : UploadBegin(u, d, b)
  \/ \E d \in LifeDocs, ok \in BOOLEAN : UploadWrite(d, ok)
  \/ \E d \in LifeDocs, ok \in BOOLEAN : UploadFinish(d, ok)
  \/ \E d \in LifeDocs : BgExtract(d)
  \/ \E d \in LifeDocs, ok \in BOOLEAN : BgSaved(d, ok)
  \/ \E d \in LifeDocs, ok \in BOOLEAN : BgIndexed(d, ok)
  \/ \E d \in LifeDocs, o \in LifeOutcomes : BgSummarized(d, o)
  \/ \E u \in LifeUsers, d \in LifeDocs : DeleteBegin("r1", u, d)
  \/ \E ok \in BOOLEAN : DeleteUnlink("r1", ok)
  \/ \E ok \in BOOLEAN, okp \in BOOLEAN : DeleteContent("r1", ok, okp)
  \/ \E u \in LifeUsers, d \in LifeDocs, ok \in BOOLEAN : GetContent(u, d, ok)
  \/ \E u \in LifeUsers, d \in LifeDocs, ok \in BOOLEAN, e \in BOOLEAN :
        Ask(u, d, "q", ok, e)
  \/ \E u \in LifeUsers, d \in LifeDocs, ip \in IPs, ok \in BOOLEAN, e \in BOOLEAN,
        oki \in BOOLEAN, o \in LifeOutcomes : GetSummary(u, d, ip, ok, e, oki, o)
  \/ Restart

Spec == Init /\ [][Next]_vars

\* ------------------------------------------- generateSummary, called directly
lifeVars == <<loaded, userFiles, filesJson, origFile, documentContents, contentDisk,
              chunksDisk, storeCache, up, bg, del, returned, deleted, saved, restarts,
              ex, loads, embeds, ans, saves>>

SumDocs == {"d1"}
SumCallers == {"ip1"}
SumText(d) == IF d = "d1" THEN "tA" ELSE "tB"

\* generateSummary(text, documentId, ip) from its entry to its first await, or
\* to its return when it does not reach the capability (lines 145-166).
SumCallBegin(c, d, ip) ==
  LET k == <<d, ip>>
      path == GSPath(summaryCache, requestCounts, d, ip, now)
      early == GSEarly(summaryCache, requestCounts, SumText(d), d, ip, now)
  IN /\ calls[c].pc = "idle"
     /\ c = "c1" \/ calls["c1"].pc # "idle"
     /\ requestCounts' = GSCounts(summaryCache, requestCounts, d, ip, now)
     /\ recent' = GSRecent(summaryCache, requestCounts, d, ip, now)
     /\ IF path = "call"
        THEN /\ calls' = [calls EXCEPT ![c] =
                          [pc |-> "await", doc |-> d, ip |-> ip, text |-> SumText(d),
                           time |-> now, prevGen |-> PrevGen(k, now),
                           prevRes |-> PrevRes(d, ip, now),
                           limited |-> Limited(d, ip, now)]]
             /\ UNCHANGED sumLog
        ELSE /\ sumLog' = Log(d, ip, SumText(d), path, early, FALSE, now,
                              PrevGen(k, now), PrevRes(d, ip, now),
                              Limited(d, ip, now))
             /\ UNCHANGED calls
     /\ UNCHANGED <<summaryCache, hist, now, hasKey, lifeVars>>

\* The capability answers (or fails) and generateSummary returns (lines 194-226).
SumCallEnd(c, o) ==
  LET d == calls[c].doc
      ip == calls[c].ip
      result == GSResult(calls[c].text, o)
  IN /\ calls[c].pc = "await"
     /\ o # "hang"
     /\ summaryCache' = GSCache(summaryCache, d, ip, o, now)
     /\ sumLog' = Log(d, ip, calls[c].text, IF o \in GenTexts THEN "gen" ELSE "fallback",
                      result, TRUE, calls[c].time, calls[c].prevGen, calls[c].prevRes,
                      calls[c].limited)
     /\ hist' = HistAfter(<<d, ip>>, result, o \in GenTexts, now)
     /\ calls' = [calls EXCEPT ![c] = IdleCall]
     /\ UNCHANGED <<requestCounts, recent, now, hasKey, lifeVars>>

\* Time passes.
Tick ==
  /\ now < MaxTicks * TickMs
  /\ now' = now + TickMs
  /\ recent' = RecentShifted(1)
  /\ UNCHANGED <<summaryCache, requestCounts, hasKey, sumLog, calls, hist, lifeVars>>

\* The calls are made one after the other.
SumCalls == {"c1"}

NextSum ==
  \/ \E c \in SumCalls, d \in SumDocs, ip \in SumCallers : SumCallBegin(c, d, ip)
  \/ \E c \in SumCalls, o \in GenOutcomes : SumCallEnd(c, o)
  \/ Tick

SpecSum == Init /\ [][NextSum]_vars

\* ------------------------------------------------ two documents of one user
\* Uploads of two documents by the same user, their background tasks, reads,
\* a delete and a restart, with no I/O failure and no API key set apart.
FileBodies == {"A", "corrupt", "zero"}
FileOutcomes == {"g1", "quota"}

NextFiles ==
  \/ \E d \in Docs, b \in FileBodies : UploadBegin("u1", d, b)
  \/ \E d \in Docs : UploadWrite(d, TRUE)
  \/ \E d \in Docs : UploadFinish(d, TRUE)
  \/ \E d \in Docs : BgExtract(d)
  \/ \E d \in Docs : BgSaved(d, TRUE)
  \/ \E d \in Docs : BgIndexed(d, TRUE)
  \/ \E d \in Docs, o \in FileOutcomes : BgSummarized(d, o)
  \/ \E d \in Docs : DeleteBegin("r1", "u1", d)
  \/ DeleteUnlink("r1", TRUE)
  \/ DeleteContent("r1", TRUE, TRUE)
  \/ \E d \in Docs : GetContent("u1", d, TRUE)
  \/ Restart

SpecFiles == Init /\ [][NextFiles]_vars

\* ------------------------------------------- overlapping deletes of one user
\* Two DELETE requests of u1 in flight at once, with uploads of the same user;
\* every file operation succeeds.
NextDel ==
  \/ \E d \in Docs, b \in FileBodies : UploadBegin("u1", d, b)
  \/ \E d \in Docs : UploadWrite(d, TRUE)
  \/ \E d \in Docs : UploadFinish(d, TRUE)
  \/ \E r \in DelIds, d \in Docs : DeleteBegin(r, "u1", d)
  \/ \E r \in DelIds : DeleteUnlink(r, TRUE)
  \/ \E r \in DelIds : DeleteContent(r, TRUE, TRUE)

SpecDel == Init /\ [][NextDel]_vars

\* ------------------------------------------------- uploads that are rejected
\* Uploads of two users, accepted or rejected at each step, with the
\* background task of the accepted ones and restarts in between.
NextUp ==
  \/ \E u \in Users, d \in Docs, b \in FileBodies : UploadBegin(u, d, b)
  \/ \E d \in Docs, ok \in BOOLEAN : UploadWrite(d, ok)
  \/ \E d \in Docs, ok \in BOOLEAN : UploadFinish(d, ok)
  \/ \E d \in Docs : BgExtract(d)
  \/ \E d \in Docs : BgSaved(d, TRUE)
  \/ \E d \in Docs : BgIndexed(d, TRUE)
  \/ \E d \in Docs : BgSummarized(d, "g1")
  \/ Restart

SpecUp == Init /\ [][NextUp]_vars

\* ------------------------------------------------- the index, called directly
ragRest_ == <<loaded, userFiles, filesJson, origFile, documentContents, contentDisk,
              summaryCache, requestCounts, recent, now, hasKey, up, bg, del, returned, sumLog,
              deleted, saved, restarts, calls, hist, ex, saves>>
ragRest == <<ragRest_, loads, ans>>

\* Texts handed to buildIndex; "" is blank content.
RagTexts == Texts \cup {""}

\* Values of k handed to retrieveTopK.
TopKs == {0, 1, 4}

\* buildIndex(u, d, t) (rag.js 20-62): blank content throws before anything is
\* written; otherwise chunks.json is overwritten. The text of a document does
\* not change between its builds.
RagBuild(u, d, t, ok) ==
  LET dir == getIndexDir(u, d) IN
  /\ ~chunksDisk[dir].exists \/ chunksDisk[dir].n = NChunks(t)
  /\ chunksDisk' = IF ok /\ t # "" THEN BuiltIndex(<<u, d>>, t) ELSE chunksDisk
  /\ UNCHANGED <<storeCache, embeds, ragRest>>

\* loadIndex(u, d), alone or as the first step of retrieveTopK (rag.js 67-117,
\* 121): a store that was built is cached.
RagLoad(u, d, embedOk) ==
  /\ storeCache' = StoreCacheAfter(<<u, d>>, embedOk)
  /\ embeds' = EmbedsAfter(<<u, d>>, embedOk)
  /\ UNCHANGED <<chunksDisk, ragRest>>

NextRag ==
  \/ \E u \in Users, d \in Docs, t \in RagTexts, ok \in BOOLEAN : RagBuild(u, d, t, ok)
  \/ \E u \in Users, d \in Docs, e \in BOOLEAN : RagLoad(u, d, e)

SpecRag == Init /\ [][NextRag]_vars

\* ------------------------------------ saveDocumentContent, step by step
\* saveDocumentContent(u, d, t) to its first await: the memory cache is set
\* (part_010 233-250).
SaveBegin(c, u, d, t) ==
  /\ saves[c].pc = "idle"
  /\ documentContents' = [documentContents EXCEPT ![<<u, d>>] = t]
  /\ saves' = [saves EXCEPT ![c] = [pc |-> "opening", key |-> <<u, d>>, text |-> t]]
  /\ UNCHANGED <<loaded, userFiles, filesJson, origFile, contentDisk, indexVars, sumVars,
                 now, hasKey, up, bg, del, returned, sumLog, deleted, saved, restarts,
                 calls, hist, ex, loads, ans>>

\* writeFile opens the content file for writing, which empties it (line 254).
SaveOpen(c) ==
  /\ saves[c].pc = "opening"
  /\ contentDisk' = [contentDisk EXCEPT ![saves[c].key] = "partial"]
  /\ saves' = [saves EXCEPT ![c].pc = "writing"]
  /\ UNCHANGED <<loaded, userFiles, filesJson, origFile, documentContents, indexVars,
                 sumVars, now, hasKey, up, bg, del, returned, sumLog, deleted, saved,
                 restarts, calls, hist, ex, loads, ans>>

\* writeFile ends; a failure is only logged. The listed record gets hasContent
\* and the call returns true (lines 254-274).
SaveEnd(c, ok) ==
  LET k == saves[c].key IN
  /\ saves[c].pc = "writing"
  /\ contentDisk' = IF ok THEN [contentDisk EXCEPT ![k] = saves[c].text] ELSE contentDisk
  /\ userFiles' = [userFiles EXCEPT ![k[1]] = SavedList(k[1], k[2])]
  /\ saved' = [saved EXCEPT ![k] = saves[c].text]
  /\ saves' = [saves EXCEPT ![c] = IdleSave]
  /\ UNCHANGED <<loaded, filesJson, origFile, documentContents, indexVars, sumVars,
                 now, hasKey, up, bg, del, returned, sumLog, deleted, restarts,
                 calls, hist, ex, loads, ans>>

NextSave ==
  \/ \E c \in SaveIds, d \in Docs, t \in {"tA", "tB"} : SaveBegin(c, "u1", d, t)
  \/ \E c \in SaveIds : SaveOpen(c)
  \/ \E c \in SaveIds, ok \in BOOLEAN : SaveEnd(c, ok)

SpecSave == Init /\ [][NextSave]_vars

\* ------------------------------------------------ loadIndex, step by step
\* loadIndex(u, d) up to its await of readFile: without a chunk set, with a
\* cached store or without the key it returns at once (rag.js 67-91).
LoadBegin(l, u, d) ==
  /\ loads[l].pc = "idle"
  /\ loads' = IF LoadIndexEmbeds(<<u, d>>)
              THEN [loads EXCEPT ![l] = [pc |-> "reading", key |-> <<u, d>>]]
              ELSE loads
  /\ UNCHANGED <<indexVars, ragRest_, ans>>

\* The file is read and the chunks are embedded; the store is cached (rag.js
\* 91-112). A failure returns null.
LoadEnd(l, embedOk) ==
  LET k == loads[l].key
      built == chunksDisk[getIndexDir(k[1], k[2])].n > 0 /\ embedOk
  IN /\ loads[l].pc = "reading"
     /\ loads' = [loads EXCEPT ![l] = IdleLoad]
     /\ storeCache' = IF built THEN storeCache \cup {getIndexDir(k[1], k[2])} ELSE storeCache
     /\ embeds' = IF built THEN [embeds EXCEPT ![k] = @ + 1] ELSE embeds
     /\ UNCHANGED <<chunksDisk, ragRest_, ans>>

NextLoad ==
  \/ \E d \in Docs, t \in {"tA", "tB"} : RagBuild("u1", d, t, TRUE)
  \/ \E l \in LoadIds, d \in Docs : LoadBegin(l, "u1", d)
  \/ \E l \in LoadIds, e \in BOOLEAN : LoadEnd(l, e)

SpecLoad == Init /\ [][NextLoad]_vars

\* ------------------------------- generateExtractiveSummary, called directly
\* The long sentences are among the first MaxLong ones.
LongSets(n) == SUBSET (1..Min(n, MaxLong))

Extract(n, long, hit) ==
  /\ ex = NoExtract
  /\ ex' = [n |-> n, long |-> long, hit |-> hit,
            selected |-> Selected(n, long, hit),
            out |-> Paragraph(long, Selected(n, long, hit))]
  /\ UNCHANGED <<summaryCache, requestCounts, recent, now, hasKey, sumLog, calls, hist,
                 loaded, userFiles, filesJson, origFile, documentContents, contentDisk,
                 chunksDisk, storeCache, up, bg, del, returned, deleted, saved,
                 restarts, loads, embeds, ans, saves>>

NextExt == \E n \in 1..MaxSentences : \E long \in LongSets(n), hit \in 1..n :
             Extract(n, long, hit)

SpecExt == Init /\ [][NextExt]_vars

\* ------------------------------------------- checkRateLimit, called directly
RateCallers == {"ip1", "u1"}

\* checkRateLimit(ip) at the current time (documents.js 28-53).
RateCheck(ip) ==
  /\ requestCounts' = RateCountsAfter(requestCounts, ip, now)
  /\ recent' = RecentAfter(requestCounts, ip, now)
  /\ UNCHANGED <<summaryCache, now, hasKey, sumLog, calls, hist, lifeVars>>

\* One window of time passes.
WindowPasses ==
  /\ now < MaxTicks * TickMs
  /\ now' = now + windowMs
  /\ recent' = RecentShifted(WindowTicks)
  /\ UNCHANGED <<summaryCache, requestCounts, hasKey, sumLog, calls, hist, lifeVars>>

NextRate ==
  \/ \E ip \in RateCallers : RateCheck(ip)
  \/ WindowPasses

SpecRate == Init /\ [][NextRate]_vars

\* --------------------------------- generateExtractiveAnswer, called directly
AnswerContexts ==
  UNION {[1..n -> SentenceShapes] : n \in 1..MaxAnswerSentences}

\* generateExtractiveAnswer(question, context) for an amount question that is
\* not a deadline question.
Answer(sents) ==
  /\ ans = NoAnswer
  /\ ans' = [sentences |-> sents, out |-> AmountScan(sents, 1, 0)]
  /\ UNCHANGED <<indexVars, ragRest_, loads>>

NextAns == \E sents \in AnswerContexts : Answer(sents)

SpecAns == Init /\ [][NextAns]_vars

\* ----------------------------------- the operations around the rate limiter
\* One document is uploaded and processed and its owner asks about it, while
\* generateSummary, buildIndex, loadIndex and generateExtractiveSummary are also
\* called directly.
FrameOutcomes == {"g1", "quota"}

NextFrame ==
  \/ UploadBegin("u1", "d1", "A")
  \/ UploadWrite("d1", TRUE)
  \/ UploadFinish("d1", TRUE)
  \/ BgExtract("d1")
  \/ BgSaved("d1", TRUE)
  \/ \E ok \in BOOLEAN : BgIndexed("d1", ok)
  \/ \E o \in FrameOutcomes : BgSummarized("d1", o)
  \/ \E e \in BOOLEAN : Ask("u1", "d1", "q", TRUE, e)
  \/ SumCallBegin("c1", "d1", "ip1")
  \/ \E o \in FrameOutcomes : SumCallEnd("c1", o)
  \/ \E ok \in BOOLEAN : RagBuild("u1", "d1", "tA", ok)
  \/ \E e \in BOOLEAN : RagLoad("u1", "d1", e)
  \/ Extract(MaxSentences, {}, 1)

SpecFrame == Init /\ [][NextFrame]_vars

\* -------------------------------------------------------------- properties
\* C1: processUploadedFile returns a record whose status is 'processing', and
\* at its return none of the extraction, persistence, indexing or summarization
\* stages of the document has started: the background task is only scheduled,
\* and the returning step leaves the content store, the index and the summary
\* cache as they were.
C1_ReturnsProcessingBeforeStages ==
  [][\A d \in Docs :
       returned'[d] # returned[d] =>
         /\ returned'[d] = "processing"
         /\ bg[d].pc = "none" /\ bg'[d].pc = "scheduled"
         /\ UNCHANGED <<storeVars, indexVars, sumVars, sumLog, saved>>]_vars

C1_Witness ==
  /\ returned["d1"] = "processing"
  /\ bg["d1"].pc = "scheduled"
  /\ Status("d1") = "processing"

\* C2: the status of a listed document changes only uploading -> processing,
\* processing -> completed or processing -> error; completed and error are
\* never left and the status never moves backwards.
C2_StatusTransitions ==
  [][\A d \in Docs :
       (Status(d) # "none" /\ Status(d)' # "none" /\ Status(d)' # Status(d)) =>
         <<Status(d), Status(d)'>> \in {<<"uploading", "processing">>,
                                       <<"processing", "completed">>,
                                       <<"processing", "error">>}]_vars

\* C3: no capability call that never answers keeps a stage of the background
\* task, and with it an accepted and undeleted document, in 'processing'.
C3_NoStagePendingForever ==
  \A d \in Docs :
    ~(/\ bg[d].pc = "hung"
      /\ Status(d) = "processing"
      /\ <<Owner(d), d>> \notin deleted)

\* C4: for every failure of the capability and for a missing API key,
\* generateSummary returns the extractive summary of its text, which is not
\* empty, and the background task that made the call ends with the listed
\* document 'completed' and carrying the returned summary.
C4_FallbackCompletes ==
  /\ [](/\ \A t \in Texts, o \in GenFailures :
             /\ GSResult(t, o) = generateExtractiveSummary(t)
             /\ GSResult(t, o) \notin {"", NoText}
         /\ sumLog.path \in {"fallback", "nokey"} =>
             /\ sumLog.result = generateExtractiveSummary(sumLog.text)
             /\ sumLog.result \notin {"", NoText})
  /\ [][\A d \in Docs :
         (bg[d].pc \in {"indexing", "awaitgen"} /\ bg'[d].pc = "finished") =>
           /\ sumLog'.doc = d /\ sumLog'.text = bg[d].text
           /\ sumLog'.result \notin {"", NoText}
           /\ Status(d)' \in {"none", "completed"}
           /\ Status(d)' = "completed" => Summary(d)' = sumLog'.result]_vars

C4_Witness ==
  /\ bg["d1"].pc = "finished"
  /\ sumLog.doc = "d1" /\ sumLog.path = "fallback" /\ sumLog.invoked
  /\ sumLog.result = "xA"
  /\ Status("d1") = "completed" /\ Summary("d1") = "xA"

\* C5: a generateSummary call that starts with the caller's quota exhausted
\* (checkRateLimit false) and no fresh cache entry for (document, caller)
\* returns the extractive summary of its text and never reaches the capability.
C5_RateLimitedIsExtractive ==
  sumLog.limited =>
    /\ sumLog.result = generateExtractiveSummary(sumLog.text)
    /\ ~sumLog.invoked

C5_Witness == sumLog.limited /\ sumLog.path = "limited" /\ sumLog.result = "xA"

\* C6 as stated: a call that starts less than the TTL after an earlier call for
\* the same (document, caller) returned gets the same text, with no second
\* generative call, whichever path produced the earlier result.
C6_AnyTwoCallsIdentical ==
  sumLog.prevRes # NoText =>
    /\ sumLog.result = sumLog.prevRes
    /\ ~sumLog.invoked

\* C6 amended: a call that starts less than the TTL after the most recent
\* generative result for the same (document, caller) was returned gets that
\* text from the summary cache, with no generative call.
C6_CachedServedIdentical ==
  sumLog.prevGen # NoText =>
    /\ sumLog.result = sumLog.prevGen
    /\ sumLog.path = "cached"
    /\ ~sumLog.invoked

C6_Witness ==
  /\ sumLog.prevGen \in GenTexts
  /\ sumLog.path = "cached"
  /\ sumLog.result = sumLog.prevGen
  /\ sumLog.time > 0

\* C7: once saveDocumentContent(user, doc, text) has returned true and the
\* content file holds text, getDocumentContent(user, doc) returns text, in the
\* same process run and after a restart.
C7_RoundTrip ==
  \A k \in Keys :
    (saved[k] # NoText /\ contentDisk[k] = saved[k]) => getDocumentContent(k) = saved[k]

\* C8: after removeUserFile has returned true for a document, its content is in
\* neither the memory cache nor the content file, its chunk set and its cached
\* vector store are gone, and loadIndex finds nothing.
C8_DeleteRemovesArtifacts ==
  \A k \in deleted :
    /\ documentContents[k] = NoText
    /\ contentDisk[k] = NoText
    /\ ~chunksDisk[k].exists
    /\ k \notin storeCache
    /\ \A e \in BOOLEAN : ~LoadIndexStore(k, e)

\* C9: after removeUserFile has returned true for a document, the content
\* route and the ask route, for every non-blank question that is not small
\* talk, answer 404 for it.
C9_DeletedIsNotFound ==
  \A k \in deleted :
    /\ ContentResponse(k[1], k[2]).kind = "404"
    /\ \A q \in {"q"}, e \in BOOLEAN, s \in BOOLEAN, o \in AnsOutcomes :
         AskResponse(k[1], k[2], q, e, s, o).kind = "404"

\* The index of key k is unavailable to a retrieval in which the embedding of
\* the chunks succeeds iff e and that of the question iff s.
IndexUnavailable(k, e, s) ==
  \/ ~chunksDisk[k].exists
  \/ chunksDisk[k].n = 0
  \/ ~hasKey
  \/ k \notin storeCache /\ ~e
  \/ ~s

\* C10: retrieveTopK returns the empty string whenever the index is unavailable
\* (no chunk set, empty chunk set, no API key, embedding failure) or the
\* question is blank; and an ask that reaches retrieval and whose generative
\* call returns then answers 200 with the stored content, cut to 8000
\* characters, as context.
C10_RetrievalFallsBack ==
  \A u \in Users, d \in Docs, q \in Questions, e \in BOOLEAN, s \in BOOLEAN :
    (IndexUnavailable(<<u, d>>, e, s) \/ Blank(q)) =>
      /\ retrieveTopK(<<u, d>>, q, 4, e, s) = <<>>
      /\ \A o \in AnsOutcomes :
           (AskAnswers(u, d, q) /\ ~(hasKey /\ o = "hang")) =>
             /\ AskResponse(u, d, q, e, s, o).kind = "200"
             /\ AskResponse(u, d, q, e, s, o).rag = 0
             /\ AskResponse(u, d, q, e, s, o).ctx = Truncated(LazyText(u, d))

C10_Witness ==
  /\ documentContents[<<"u1", "d1">>] = "tB"
  /\ ~chunksDisk[<<"u1", "d1">>].exists
  /\ AskResponse("u1", "d1", "q", TRUE, TRUE, "a1").kind = "200"
  /\ AskResponse("u1", "d1", "q", TRUE, TRUE, "a1").ctx = "tB[0,8000)..."

\* C11: for an existing index retrieveTopK(user, doc, question, k) returns at
\* most max(1, k) chunks, each one a chunk of the set persisted by the
\* buildIndex of that same (user, doc), whatever was built, loaded and
\* retrieved for other users and documents.
C11_OwnChunksOnly ==
  \A u \in Users, d \in Docs, q \in Questions, kk \in TopKs, e \in BOOLEAN, s \in BOOLEAN :
    LET r == retrieveTopK(<<u, d>>, q, kk, e, s) IN
    /\ Len(r) <= Max(1, kk)
    /\ \A i \in 1..Len(r) :
         /\ r[i][1] = u /\ r[i][2] = d
         /\ r[i][3] \in 1..chunksDisk[getIndexDir(u, d)].n

C11_Witness ==
  /\ chunksDisk[getIndexDir("u1", "d1")].n = 11
  /\ chunksDisk[getIndexDir("u2", "d1")].n = 1
  /\ getIndexDir("u2", "d1") \in storeCache
  /\ Len(retrieveTopK(<<"u1", "d1">>, "q", 4, TRUE, TRUE)) = 4
  /\ Len(retrieveTopK(<<"u1", "d1">>, "q", 0, TRUE, TRUE)) = 1

\* C12: for a listed document whose status is uploading or processing the
\* summary route answers with the 'processing' signal, and for status error
\* with the 'error' signal, never with a summary.
C12_SummaryOnlyWhenCompleted ==
  \A d \in Docs, ip \in IPs, o \in GenOutcomes :
    /\ Status(d) \in {"uploading", "processing"} =>
         SummaryResponse(Owner(d), d, ip, o).body = "DOCUMENT_PROCESSING"
    /\ Status(d) = "error" =>
         SummaryResponse(Owner(d), d, ip, o).body = "DOCUMENT_PROCESSING_FAILED"

\* C13: for a listed document whose status is completed, with no delete of it
\* under way, the summary route and the ask route (non-blank question) answer
\* 200 with some text for every outcome in which the capability returns,
\* whether or not content, original file or index are available.
C13_AlwaysSomeText ==
  \A d \in Docs :
    (Status(d) = "completed" /\ \A r \in DelIds : del[r].pc = "idle") =>
      /\ \A ip \in IPs, o \in GenOutcomes \ {"hang"} :
           /\ SummaryResponse(Owner(d), d, ip, o).kind = "200"
           /\ SummaryResponse(Owner(d), d, ip, o).body \notin {"", NoText}
      /\ \A e \in BOOLEAN, se \in BOOLEAN, o \in AnsOutcomes \ {"hang"} :
           /\ AskResponse(Owner(d), d, "q", e, se, o).kind = "200"
           /\ AskResponse(Owner(d), d, "q", e, se, o).body \notin {"", NoText}

\* C14: a document whose upload was accepted and that has not been deleted is
\* found by getUserFile, before and after a restart, whatever the user's
\* operations after the restart are.
C14_MetadataSurvivesRestart ==
  \A d \in Docs :
    (returned[d] # "none" /\ <<Owner(d), d>> \notin deleted) => Status(d) # "none"


\* The sentence of bucket b that the descending stable sort puts first.
IsBucketTop(i, b) ==
  /\ i \in Bucket(ex.n, b)
  /\ \A j \in Bucket(ex.n, b) :
       \/ Score(ex.n, ex.long, ex.hit, j) < Score(ex.n, ex.long, ex.hit, i)
       \/ Score(ex.n, ex.long, ex.hit, j) = Score(ex.n, ex.long, ex.hit, i) /\ i <= j

InOutput(i) == \E p \in 1..Len(ex.out) : ex.out[p].s = i /\ ex.out[p].words > 0

StageOrder ==
  {<<"none", "scheduled">>, <<"scheduled", "saving">>, <<"scheduled", "finished">>,
   <<"saving", "indexing">>, <<"indexing", "awaitgen">>, <<"indexing", "finished">>,
   <<"awaitgen", "finished">>, <<"awaitgen", "hung">>, <<"hung", "lost">>}

\* What each stage has left behind when the next one runs.
StagesDone(d) ==
  /\ bg[d].pc \in {"saving", "indexing", "awaitgen", "hung", "lost"} => bg[d].text \in Texts
  /\ bg[d].pc \in {"awaitgen", "hung", "lost"} => bg[d].index # "none"
  /\ bg[d].pc \in {"none", "scheduled", "saving", "indexing"} => bg[d].index = "none"
  /\ bg[d].index = "failed" => Status(d) # "error"

\* A step of the task of document d, seen from outside.
StageStep(d) ==
  /\ bg'[d].pc # bg[d].pc => <<bg[d].pc, bg'[d].pc>> \in StageOrder
  /\ (bg[d].pc = "indexing" /\ bg'[d].index = "failed") =>
       /\ bg'[d].pc \in {"awaitgen", "finished"}
       /\ bg'[d].pc = "awaitgen" => bg'[d].call.pc = "await" /\ bg'[d].call.text = bg[d].text
       /\ bg'[d].pc = "finished" =>
            /\ sumLog'.doc = d /\ sumLog'.text = bg[d].text
            /\ Status(d)' \in {"completed", "none"}
  /\ (bg[d].pc = "awaitgen" /\ bg'[d].pc = "finished" /\ bg[d].index = "failed") =>
       Status(d)' \in {"completed", "none"}

\* C16: a background task moves through extract, persist content, build index
\* and summarize in that order, each stage starting after the previous one has
\* finished; after a failed index build the task still calls generateSummary,
\* and when it ends it writes 'completed' to the listed record, never 'error'.
C16_StagesInOrder ==
  /\ [](\A d \in Docs : StagesDone(d))
  /\ [][\A d \in Docs : StageStep(d)]_vars

\* The index build failed and the task has ended with the record completed.
C16_Witness ==
  \E d \in Docs : bg[d].index = "failed" /\ bg[d].pc = "finished" /\ Status(d) = "completed"

\* getUserFile(u, d).error for the owner of d.
ErrorOf(d) ==
  LET list == EnsuredFiles(Owner(d))[Owner(d)] IN
  IF FindIndex(list, d) = 0 THEN "" ELSE list[FindIndex(list, d)].error

\* The step in which the extraction of d fails, and the step in which the
\* write of its content file fails.
ExtractionFails(d) == bg[d].pc = "scheduled" /\ bg'[d].pc = "finished"
PersistFails(d) ==
  /\ bg[d].pc = "saving"
  /\ bg'[d].pc # "saving"
  /\ contentDisk'[<<Owner(d), d>>] # bg[d].text

\* What the step leaves of the other documents: record, content and index.
OthersUnchanged(d) ==
  \A e \in Docs \ {d} :
    /\ Status(e)' = Status(e)
    /\ \A u \in Users : /\ documentContents'[<<u, e>>] = documentContents[<<u, e>>]
                        /\ contentDisk'[<<u, e>>] = contentDisk[<<u, e>>]
                        /\ chunksDisk'[<<u, e>>] = chunksDisk[<<u, e>>]

\* C17: when extraction or content persistence fails in the background task of
\* a listed document, its status becomes 'error' with a non-empty message, the
\* task ends there, and no other document's record, content or index changes.
C17_FailureRecorded ==
  [][\A d \in Docs :
       (ExtractionFails(d) \/ PersistFails(d)) =>
         /\ bg'[d].pc = "finished"
         /\ Status(d)' # "none" => Status(d)' = "error" /\ ErrorOf(d)' # ""
         /\ OthersUnchanged(d)]_vars

\* The calls of caller c that checkRateLimit admitted within the last windowMs,
\* the current time and the time one window ago included.
AdmittedInWindow(c) ==
  LET RECURSIVE Sum(_)
      Sum(k) == IF k < 0 THEN 0 ELSE recent[c][k] + Sum(k - 1)
  IN Sum(WindowTicks)

\* C18: for every caller and every interval of length windowMs, checkRateLimit
\* admits at most maxRequests calls of that caller within the interval, whatever
\* the calls of this and of other callers.
C18_AtMostMaxPerWindow == \A c \in Callers : AdmittedInWindow(c) <= maxRequests

\* A caller has had maxRequests calls admitted within one window, spread over
\* more than one point in time, while another caller's checks went on.
C18_Witness ==
  \E c \in RateCallers :
    /\ AdmittedInWindow(c) = maxRequests
    /\ recent[c][0] > 0 /\ recent[c][0] < maxRequests
    /\ now > windowMs
    /\ \E o \in RateCallers \ {c} : AdmittedInWindow(o) > 0
    /\ ~checkRateLimit(requestCounts, c, now)

\* C19: checkRateLimit admits a caller whenever fewer than maxRequests of that
\* caller's calls were admitted during the preceding windowMs.
C19_WindowSlides ==
  \A c \in Callers : AdmittedInWindow(c) < maxRequests => checkRateLimit(requestCounts, c, now)

\* A step that enters generateSummary: on a cache miss, on a cache hit.
SummaryMiss ==
  \/ \E d \in Docs, ok \in BOOLEAN :
       BgIndexed(d, ok) /\ ~CacheFresh(summaryCache, d, Owner(d), now)
  \/ \E c \in CallIds, d \in Docs, ip \in Callers :
       SumCallBegin(c, d, ip) /\ ~CacheFresh(summaryCache, d, ip, now)
SummaryHit ==
  \E c \in CallIds, d \in Docs, ip \in Callers :
    SumCallBegin(c, d, ip) /\ CacheFresh(summaryCache, d, ip, now)

\* C20: the rate-limit counters change only in a generateSummary call on a
\* summary-cache miss; a call served from the cache, an ask, loadIndex and
\* retrieveTopK, buildIndex and the extractive summary leave every counter as
\* it is; one call raises no count but its caller's, and that by at most one.
C20_OnlySummaryMissCounts ==
  [][/\ requestCounts' # requestCounts => SummaryMiss
     /\ SummaryHit => requestCounts' = requestCounts
     /\ \A c \in Callers : requestCounts'[c].count <= requestCounts[c].count + 1
     /\ Cardinality({c \in Callers :
                       requestCounts'[c].count > requestCounts[c].count}) <= 1]_vars

\* A call was served from the summary cache after a counted one, the owner's
\* question has loaded the index, and an extractive summary has been made.
C20_Witness ==
  /\ sumLog.path = "cached"
  /\ requestCounts["ip1"].count = 1
  /\ requestCounts["u1"].count = 1
  /\ storeCache # {}
  /\ bg["d1"].pc = "finished"
  /\ ex # NoExtract

\* C21: for each (user, document) key the vector store is built at most once
\* per process run, also when several loadIndex calls for the key overlap.
C21_BuiltAtMostOnce == \A k \in Keys : embeds[k] <= 1

\* C22: buildIndex persists no chunk set for a blank text or for a text that
\* leaves no usable chunk, so a persisted chunk set is never empty.
C22_PersistedChunksNotEmpty ==
  \A k \in Keys : chunksDisk[k].exists => chunksDisk[k].n > 0

\* C23: for an amount question, when some sentence of the context holds a
\* currency match, the answer is the first match of the first such sentence,
\* with that sentence as its source.
C23_FirstAmountOfFirstSentence ==
  \A i \in 1..Len(ans.sentences) :
    (/\ AmountMatches(ans.sentences[i]) # <<>>
     /\ \A h \in 1..(i - 1) : AmountMatches(ans.sentences[h]) = <<>>)
    => ans.out = [s |-> i, m |-> 1]

\* C24: when the write of the content file fails, saveDocumentContent does not
\* report success, and the background task does not go on to mark the document
\* 'completed'.
C24_WriteFailureReported ==
  [][\A d \in Docs :
       PersistFails(d) =>
         /\ saved'[<<Owner(d), d>>] = saved[<<Owner(d), d>>]
         /\ bg'[d].pc = "finished"
         /\ Status(d)' # "completed"]_vars

\* C25: with saveDocumentContent calls for one key overlapping, a reader gets
\* no content or a complete text, never a partial one; and once all saves have
\* finished, the memory cache and the content file hold the same text, that of
\* the last writer.
C25_LastWriterWins ==
  \A k \in Keys :
    /\ getDocumentContent(k) \in Texts \cup {NoText}
    /\ (saved[k] # NoText /\ \A c \in SaveIds : saves[c].pc = "idle") =>
         /\ documentContents[k] = saved[k]
         /\ contentDisk[k] = documentContents[k]

\* C26: every listed document whose status is 'completed' has its text in the
\* content store or has its original file to regenerate it from.
C26_CompletedHasContent ==
  \A d \in Docs :
    Status(d) = "completed" =>
      \/ getDocumentContent(<<Owner(d), d>>) # NoText
      \/ origFile[d] # "absent"

\* C27: once no removeUserFile call is in flight, the list of u1 holds exactly
\* the uploaded documents that no delete has removed: a document that was not
\* deleted is still listed and a deleted one is not.
C27_OnlyTargetRemoved ==
  (\A r \in DelIds : del[r].pc = "idle") =>
    \A d \in Docs :
      up[d].pc = "done" /\ Owner(d) = "u1" =>
        (Listed("u1", d) <=> <<"u1", d>> \notin deleted)

\* The background task of d ends in this step, after a delete of d has
\* succeeded while the task was still running.
EndsAfterDelete(d) ==
  /\ <<Owner(d), d>> \in deleted
  /\ bg[d].pc \in {"scheduled", "saving", "indexing", "awaitgen"}
  /\ bg'[d].pc = "finished"

\* C28: when the background task of a document that was deleted while the task
\* ran has finished, the record is not in the user's list, no content of the
\* document is in memory or on disk, and no chunk set of it is persisted.
C28_NothingLeftAfterTask ==
  [][\A d \in Docs :
       EndsAfterDelete(d) =>
         /\ ~Listed(Owner(d), d)'
         /\ documentContents'[<<Owner(d), d>>] = NoText
         /\ contentDisk'[<<Owner(d), d>>] = NoText
         /\ ~chunksDisk'[<<Owner(d), d>>].exists]_vars

\* C29: the summary field of a listed document, once it holds a non-empty
\* text, keeps that text in every later step in which the document stays
\* listed.
C29_SummaryNeverChanges ==
  [][\A d \in Docs :
       (Summary(d) \notin {"", NoText} /\ Listed(Owner(d), d) /\ Listed(Owner(d), d)') =>
         Summary(d)' = Summary(d)]_vars

\* The list getUserFiles(u) returns.
UserList(u) == EnsuredFiles(u)[u]

\* processUploadedFile throws for document d in this step.
Rejects(d) == up[d].pc # "rejected" /\ up'[d].pc = "rejected"

\* C30: when processUploadedFile throws, the list of the uploading user is
\* what it was before the call and no background task is scheduled; a rejected
\* upload is in no user's list and has no task.
C30_RejectedLeavesNoTrace ==
  /\ [](\A d \in Docs :
          up[d].pc = "rejected" =>
            /\ bg[d].pc = "none"
            /\ \A u \in Users : ~Listed(u, d))
  /\ [][\A d \in Docs :
          Rejects(d) =>
            /\ \A u \in Users : up'[d].user = u => UserList(u)' = UserList(u)
            /\ bg' = bg]_vars

\* The write of the original file of one upload fails while the user's list
\* holds another document.
C30_Witness ==
  \E d \in Docs :
    /\ up[d].pc = "rejected"
    /\ up[d].body # "absent"
    /\ Len(UserList(Owner(d))) > 0

====
